---- MODULE Spec2Model ----
(***************************************************************************)
(* The scheduling and delivery engine of src/bot.py (MessageSchedulerBot): *)
(* the authoring conversation, the job collection, the `schedule` job      *)
(* registry driven by run(), the delivery coroutine and the reload at      *)
(* start-up.                                                               *)
(*                                                                         *)
(* Time is counted in whole ticks of the run() loop (one tick = one        *)
(* SCHEDULE_CHECK_INTERVAL_SECONDS); a calendar day is DayLen ticks, so an *)
(* instant t lies on day  t \div DayLen  at time of day  t % DayLen.       *)
(***************************************************************************)
EXTENDS Integers, Sequences, FiniteSets, TLC

\* ------------------------------------------------------------- bounds
DayLen == 3          \* ticks per calendar day
MaxTime == 5         \* the clock stops here
MaxJobs == 2         \* ObjectIds the collection hands out
MaxInterval == 2     \* largest interval typed in
MaxTasks == 2        \* delivery coroutines in flight
MaxMsgs == 2         \* Telegram message ids the transport hands out
MaxButtons == 1      \* buttons added to one draft
MaxBoots == 2        \* process starts
MaxPending == 1      \* finalisations of one user awaiting their reply

Users == {"u1", "u2"}
Chats == {"c1", "c2"}
Ids == 1..MaxJobs
MaxDay == MaxTime \div DayLen

\* ------------------------------------------------------------- time
Day(t) == t \div DayLen
Tod(t) == t % DayLen

\* ------------------------------------------------------------- message texts
\* event.message.text, by what the handlers can tell apart.
NoText == [k |-> "none"]                       \* no text at all (bare media)
Blank == [k |-> "blank"]                       \* white space only
Word(w) == [k |-> "word", w |-> w]             \* plain words
Cmd(w) == [k |-> "cmd", w |-> w]               \* a text that starts with a command
IntText(n) == [k |-> "int", n |-> n]           \* a decimal integer
\* A date and a time of day, YYYY-MM-DD HH:MM:SS; padded is FALSE when the
\* hour is written with one digit ("4:05:06"), which strptime's %H accepts.
TsText(d, t, p) == [k |-> "ts", day |-> d, tod |-> t, padded |-> p]
Junk == [k |-> "junk"]                         \* "soon", "5.0", "12:00": no int, no timestamp

NoTime == NoText                               \* schedule_time: None
NoInterval == 0                                \* interval_seconds: None

\* faulty variant of Strip: white space is kept
StripKeeping(text) == text

\* text.strip() if text else "" : the empty string stands for both
Strip(text) == IF text.k \in {"none", "blank"} THEN NoText ELSE text

\* int(text): <<TRUE, n>> or <<FALSE, 0>> for ValueError
ParseInt(text) == IF text.k = "int" THEN <<TRUE, text.n>> ELSE <<FALSE, 0>>

\* datetime.strptime(text, "%Y-%m-%d %H:%M:%S"): <<TRUE, instant>> or ValueError
StrpTime(text) ==
    IF text.k = "ts" THEN <<TRUE, text.day * DayLen + text.tod>> ELSE <<FALSE, 0>>

\* time_str.split()[1], the time-of-day text handed to schedule's at()
SplitTime(text) == [tod |-> text.tod, padded |-> text.padded]

\* scheduled_dt.strftime("%H:%M:%S"): always two digits
StrfTime(t) == [tod |-> Tod(t), padded |-> TRUE]

\* ------------------------------------------------------------- sequences
RECURSIVE SelectIdx(_, _, _)
\* the indexes i >= from of sequence s with keep[i], ascending
SelectIdx(keep, from, n) ==
    IF from > n THEN <<>>
    ELSE (IF keep[from] THEN <<from>> ELSE <<>>) \o SelectIdx(keep, from + 1, n)

\* s without the elements at the indexes in drop
RemoveAt(s, drop) ==
    LET idx == SelectIdx([i \in 1..Len(s) |-> i \notin drop], 1, Len(s))
    IN  [j \in 1..Len(idx) |-> s[idx[j]]]

\* ------------------------------------------------------------- the schedule library
\* One Job of schedule.jobs: tag "message_<id>", the bound arguments of
\* send_scheduled_message, the unit and period, at_time and next_run.
NoAt == 0 - 1

\* at(time_str) of a daily job raises ScheduleValueError unless the text is HH:MM:SS
AtValid(tt) == tt.padded

\* schedule.every(n).seconds.do(...).tag(...): first run one period from now
EverySeconds(n, chat, id, t) ==
    [tag |-> id, chat |-> chat, unit |-> "seconds", interval |-> n,
     at |-> NoAt, next_run |-> t + n]

\* Job._schedule_next_run of a daily job with at_time: the next day at at_time,
\* moved back to today when nothing ran within the period and at_time is
\* still ahead of the clock
DailyNextRun(at, t, last_run) ==
    LET nxt == Day(t + DayLen) * DayLen + at
    IN  IF (last_run < 0 \/ nxt - last_run > DayLen) /\ at > Tod(t)
        THEN nxt - DayLen ELSE nxt

\* schedule.every().day.at(hh_mm_ss).do(...).tag(...)
EveryDayAt(tt, chat, id, t) ==
    [tag |-> id, chat |-> chat, unit |-> "days", interval |-> 1,
     at |-> tt.tod, next_run |-> DailyNextRun(tt.tod, t, 0 - 1)]

\* Job.should_run
ShouldRun(job, t) == t >= job.next_run

\* faulty variant of Reschedule: the run leaves next_run as it was
RescheduleNever(job, t) == job

\* Job.run after job_func returned: last_run = now, then _schedule_next_run
Reschedule(job, t) ==
    IF job.unit = "seconds"
    THEN [job EXCEPT !.next_run = t + job.interval]
    ELSE [job EXCEPT !.next_run = DailyNextRun(job.at, t, t)]

\* faulty variant of ClearTag: the jobs are left registered
ClearTagNone(js, id) == js

\* schedule.clear(tag): drop every job that carries the tag
ClearTag(js, id) == RemoveAt(js, {i \in 1..Len(js) : js[i].tag = id})

RECURSIVE SortDue(_, _)
\* sorted(runnable_jobs): the due indexes of js by next_run, ties in list order
SortDue(js, left) ==
    IF left = {} THEN <<>>
    ELSE LET m == CHOOSE i \in left :
                     \A j \in left : js[i].next_run < js[j].next_run
                                     \/ (js[i].next_run = js[j].next_run /\ i <= j)
         IN  <<m>> \o SortDue(js, left \ {m})

DueOrder(js, t) == SortDue(js, {i \in 1..Len(js) : ShouldRun(js[i], t)})

\* ------------------------------------------------------------- state
VARIABLES
    now,          \* datetime.now(), in ticks
    running,      \* the process is up and run() is in its loop
    exit_cause,   \* why the process last went down
    boots,        \* how often the process was started
    collection,   \* the MongoDB collection: _id -> document
    next_oid,     \* the next ObjectId insert_one makes up
    jobs,         \* schedule.jobs, in list order
    tasks,        \* send_message() coroutines in flight on client.loop
    live,         \* the messages that exist at the destinations
    next_mid,     \* the next message id the transport assigns
    user_states,  \* self.user_states: user_id -> {chat_id, state, data}
    pending,      \* per user: finalisations awaiting the confirmation reply
    dirty,        \* jobs that had overlapping deliveries or a delete/record fault
    reply         \* what the handlers of the last event answered, in order

vars == <<now, running, exit_cause, boots, collection, next_oid, jobs, tasks,
          live, next_mid, user_states, pending, dirty, reply>>

Init ==
    /\ now = 0
    /\ running = TRUE
    /\ exit_cause = "none"
    /\ boots = 1
    /\ collection = <<>>
    /\ next_oid = 1
    /\ jobs = <<>>
    /\ tasks = <<>>
    /\ live = {}
    /\ next_mid = 1
    /\ user_states = [u \in {} |-> 0]
    /\ pending = [u \in Users |-> 0]
    /\ dirty = {}
    /\ reply = <<>>

\* ------------------------------------------------------------- the collection
Has(coll, id) == id \in DOMAIN coll

\* doc.get("interval_seconds") is falsy
OneShotDoc(doc) == doc.interval_seconds = NoInterval

\* update_one({"_id": id}, {"$set": {"sent": True}}): nothing without a match
SetSent(coll, id) ==
    IF Has(coll, id) THEN [coll EXCEPT ![id].sent = TRUE] ELSE coll

\* faulty variant of SetLast: the update inserts a document when none matches
SetLastUpserting(coll, id, mid) ==
    IF Has(coll, id) THEN [coll EXCEPT ![id].last_sent_telegram_message_id = mid]
    ELSE [y \in DOMAIN coll \cup {id} |->
             IF y # id THEN coll[y]
             ELSE [chat_id |-> "c1", schedule_name |-> NoText, message_text |-> NoText,
                   schedule_time |-> NoTime, interval_seconds |-> NoInterval,
                   media_type |-> "none", buttons |-> <<>>, sent |-> FALSE,
                   last_sent_telegram_message_id |-> mid]]

\* update_one({"_id": id}, {"$set": {"last_sent_telegram_message_id": mid}})
SetLast(coll, id, mid) ==
    IF Has(coll, id) THEN [coll EXCEPT ![id].last_sent_telegram_message_id = mid] ELSE coll

\* faulty variant of DeleteOne: the filter has no chat_id
DeleteOneAnyChat(coll, id, chat) ==
    IF Has(coll, id) THEN [i \in DOMAIN coll \ {id} |-> coll[i]] ELSE coll

\* delete_one({"_id": id, "chat_id": chat}): the collection afterwards
DeleteOne(coll, id, chat) ==
    IF Has(coll, id) /\ coll[id].chat_id = chat
    THEN [i \in DOMAIN coll \ {id} |-> coll[i]] ELSE coll

\* the messages at the destination that render job id
JobLive(lv, id) == {m \in lv : m.job = id}

\* the coroutines in flight for job id
TasksOf(ts, id) == {i \in 1..Len(ts) : ts[i].id = id}

\* the process is gone: nothing in memory survives
Wiped ==
    /\ jobs' = <<>>
    /\ tasks' = <<>>
    /\ user_states' = [u \in {} |-> 0]
    /\ pending' = [u \in Users |-> 0]

\* ------------------------------------------------------------- run(): one pass of the loop
\* the value send_scheduled_message returns for job j: CancelJob for a stored
\* document without interval_seconds
ReturnsCancelJob(coll, j) == Has(coll, j.tag) /\ OneShotDoc(coll[j.tag])

\* the coroutine run_coroutine_threadsafe queues for job j
NewTask(j) == [id |-> j.tag, chat |-> j.chat, pc |-> "start", last |-> 0, interval |-> 0]

\* faulty variant of RunPending: a job that returned CancelJob stays registered
RunPendingKeeping(js, coll, t) ==
    [i \in 1..Len(js) |-> IF ShouldRun(js[i], t) THEN Reschedule(js[i], t) ELSE js[i]]

\* schedule.run_pending() when no job function raises: every due job is run,
\* then rescheduled, or cancelled when it returned CancelJob
RunPending(js, coll, t) ==
    LET due == {i \in 1..Len(js) : ShouldRun(js[i], t)}
        after == [i \in 1..Len(js) |->
                     IF i \in due THEN Reschedule(js[i], t) ELSE js[i]]
    IN  RemoveAt(after, {i \in due : ReturnsCancelJob(coll, js[i])})

\* faulty variant of Tick: the pass waits for the deliveries in flight
TickBlocking(storeFails) ==
    /\ running
    /\ now < MaxTime
    /\ tasks = <<>>
    /\ ~storeFails
    /\ now' = now + 1
    /\ jobs' = RunPending(jobs, collection, now + 1)
    /\ tasks' = [k \in 1..Len(DueOrder(jobs, now + 1)) |-> NewTask(jobs[DueOrder(jobs, now + 1)[k]])]
    /\ UNCHANGED <<running, exit_cause, user_states, pending, dirty>>
    /\ UNCHANGED <<boots, collection, next_oid, live, next_mid, reply>>

\* asyncio.sleep(1), then schedule.run_pending(). storeFails: the find_one in
\* send_scheduled_message raises for a due job, which ends run() and the process.
Tick(storeFails) ==
    /\ running
    /\ now < MaxTime
    /\ LET t == now + 1
           order == DueOrder(jobs, t)
           fresh == [k \in 1..Len(order) |-> NewTask(jobs[order[k]])]
       IN  /\ Len(tasks) + Len(order) <= MaxTasks
           /\ now' = t
           /\ IF storeFails
              THEN /\ Len(order) > 0
                   /\ running' = FALSE
                   /\ exit_cause' = "tick_error"
                   /\ Wiped
                   /\ dirty' = dirty
              ELSE /\ jobs' = RunPending(jobs, collection, t)
                   /\ tasks' = tasks \o fresh
                   /\ dirty' = dirty \cup
                        {id \in Ids : Cardinality(TasksOf(tasks \o fresh, id)) > 1}
                   /\ UNCHANGED <<running, exit_cause, user_states, pending>>
    /\ UNCHANGED <<boots, collection, next_oid, live, next_mid, reply>>

\* ------------------------------------------------------------- send_message()
\* faulty variant of DeliverStart: a missing document does not end the delivery
DeliverStartBlind(i, storeFails) ==
    /\ running
    /\ i \in 1..Len(tasks)
    /\ tasks[i].pc = "start"
    /\ LET id == tasks[i].id
           found == ~storeFails /\ Has(collection, id)
       IN  IF storeFails THEN tasks' = RemoveAt(tasks, {i})
           ELSE IF ~found THEN tasks' = [tasks EXCEPT ![i].pc = "send"]
           ELSE LET doc == collection[id]
                    last == doc.last_sent_telegram_message_id
                IN  tasks' = [tasks EXCEPT ![i] =
                        [@ EXCEPT !.pc = IF last # 0 THEN "delete" ELSE "send",
                                  !.last = last,
                                  !.interval = doc.interval_seconds]]
    /\ UNCHANGED <<now, running, exit_cause, boots, collection, next_oid, jobs,
                   live, next_mid, user_states, pending, dirty, reply>>

\* From the start to the first await: load the document, give up when it is
\* missing or a one-time message already sent; then delete_messages is
\* awaited when a previous message is recorded, else send_message.
DeliverStart(i, storeFails) ==
    /\ running
    /\ i \in 1..Len(tasks)
    /\ tasks[i].pc = "start"
    /\ LET id == tasks[i].id
           found == ~storeFails /\ Has(collection, id)
       IN  IF ~found \/ (collection[id].sent /\ OneShotDoc(collection[id]))
           THEN tasks' = RemoveAt(tasks, {i})
           ELSE LET doc == collection[id]
                    last == doc.last_sent_telegram_message_id
                IN  tasks' = [tasks EXCEPT ![i] =
                        [@ EXCEPT !.pc = IF last # 0 THEN "delete" ELSE "send",
                                  !.last = last,
                                  !.interval = doc.interval_seconds]]
    /\ UNCHANGED <<now, running, exit_cause, boots, collection, next_oid, jobs,
                   live, next_mid, user_states, pending, dirty, reply>>

\* faulty variant of DeliverDelete: a raising delete_messages ends the delivery
DeliverDeleteAborting(i, ok) ==
    /\ running
    /\ i \in 1..Len(tasks)
    /\ tasks[i].pc = "delete"
    /\ LET mid == tasks[i].last
           there == {m \in live : m.mid = mid}
       IN  /\ live' = IF ok THEN live \ there ELSE live
           /\ dirty' = IF ~ok /\ there # {} THEN dirty \cup {tasks[i].id} ELSE dirty
    /\ tasks' = IF ok THEN [tasks EXCEPT ![i].pc = "send"] ELSE RemoveAt(tasks, {i})
    /\ UNCHANGED <<now, running, exit_cause, boots, collection, next_oid, jobs,
                   next_mid, user_states, pending, reply>>

\* faulty variant of DeliverDelete: the recorded message is never deleted
DeliverDeleteSkipped(i, ok) ==
    /\ running
    /\ i \in 1..Len(tasks)
    /\ tasks[i].pc = "delete"
    /\ tasks' = [tasks EXCEPT ![i].pc = "send"]
    /\ UNCHANGED <<now, running, exit_cause, boots, collection, next_oid, jobs,
                   live, next_mid, user_states, pending, dirty, reply>>

\* delete_messages(chat_id, last_telegram_id) returns or raises; an exception
\* is logged and the coroutine goes on to send
DeliverDelete(i, ok) ==
    /\ running
    /\ i \in 1..Len(tasks)
    /\ tasks[i].pc = "delete"
    /\ LET mid == tasks[i].last
           there == {m \in live : m.mid = mid}
       IN  /\ live' = IF ok THEN live \ there ELSE live
           /\ dirty' = IF ~ok /\ there # {} THEN dirty \cup {tasks[i].id} ELSE dirty
    /\ tasks' = [tasks EXCEPT ![i].pc = "send"]
    /\ UNCHANGED <<now, running, exit_cause, boots, collection, next_oid, jobs,
                   next_mid, user_states, pending, reply>>

\* faulty variant of Record: every delivered document is marked sent
RecordMarkingAll(coll, task, mid, fault) ==
    IF fault = "last" THEN coll
    ELSE IF fault # "sent" THEN SetSent(SetLast(coll, task.id, mid), task.id)
    ELSE SetLast(coll, task.id, mid)

\* what the two update_one calls after a successful send leave in the
\* collection; fault names the one that raises
Record(coll, task, mid, fault) ==
    IF fault = "last" THEN coll
    ELSE LET c1 == SetLast(coll, task.id, mid)
         IN  IF task.interval = NoInterval /\ fault # "sent" THEN SetSent(c1, task.id) ELSE c1

\* faulty variant of DeliverSend: a raising send unregisters the job
DeliverSendGivingUp(i, ok, fault) ==
    /\ running
    /\ i \in 1..Len(tasks)
    /\ tasks[i].pc = "send"
    /\ IF ok
       THEN /\ next_mid <= MaxMsgs
            /\ live' = live \cup {[mid |-> next_mid, job |-> tasks[i].id]}
            /\ next_mid' = next_mid + 1
            /\ collection' = Record(collection, tasks[i], next_mid, fault)
            /\ dirty' = IF fault = "last" THEN dirty \cup {tasks[i].id} ELSE dirty
            /\ jobs' = jobs
       ELSE /\ fault = "none"
            /\ jobs' = ClearTag(jobs, tasks[i].id)
            /\ UNCHANGED <<live, next_mid, collection, dirty>>
    /\ tasks' = RemoveAt(tasks, {i})
    /\ UNCHANGED <<now, running, exit_cause, boots, next_oid, user_states, pending, reply>>

\* send_message(chat_id, ...) returns or raises; after a message went out its
\* id is stored, and a one-time document is marked sent
DeliverSend(i, ok, fault) ==
    /\ running
    /\ i \in 1..Len(tasks)
    /\ tasks[i].pc = "send"
    /\ IF ok
       THEN /\ next_mid <= MaxMsgs
            /\ live' = live \cup {[mid |-> next_mid, job |-> tasks[i].id]}
            /\ next_mid' = next_mid + 1
            /\ collection' = Record(collection, tasks[i], next_mid, fault)
            /\ dirty' = IF fault = "last" THEN dirty \cup {tasks[i].id} ELSE dirty
       ELSE /\ fault = "none"
            /\ UNCHANGED <<live, next_mid, collection, dirty>>
    /\ tasks' = RemoveAt(tasks, {i})
    /\ UNCHANGED <<now, running, exit_cause, boots, next_oid, jobs, user_states, pending,
                   reply>>

\* somebody removes a delivered message at the destination
ExternalDelete(m) ==
    /\ m \in live
    /\ live' = live \ {m}
    /\ UNCHANGED <<now, running, exit_cause, boots, collection, next_oid, jobs,
                   tasks, next_mid, user_states, pending, dirty, reply>>

\* ------------------------------------------------------------- authoring
\* text.lower()
Lower(text) == IF text.k = "word" /\ text.w = "Skip" THEN Word("skip") ELSE text

\* a button line "label|url"; scheme "" is a url without "://", host "" a url
\* that stops after the scheme
BtnText(label, scheme, host) ==
    [k |-> "btn", label |-> label, scheme |-> scheme, host |-> host]

\* re.match(r'.+\|.+', text)
IsButtonLine(text) == text.k = "btn"

\* faulty variant of ButtonUrlOk: the scheme is not checked
ButtonUrlAnyScheme(text) == text.scheme \in {"http", "https"} => text.host # ""

\* the checks on button_url_str: scheme http, https or tg, and a netloc for
\* http and https
ButtonUrlOk(text) ==
    /\ text.scheme \in {"http", "https", "tg"}
    /\ text.scheme \in {"http", "https"} => text.host # ""

\* the session /schedule_message creates
NewSession(c) ==
    [chat_id |-> c, state |-> "SCHEDULE_NAME",
     data |-> [chat_id |-> c, schedule_name |-> NoText, message_text |-> NoText,
               schedule_time |-> NoTime, interval_seconds |-> NoInterval,
               media_type |-> "none", buttons |-> <<>>, oid |-> 0]]

\* the document insert_one stores for a draft
DocOf(data) ==
    [chat_id |-> data.chat_id, schedule_name |-> data.schedule_name,
     message_text |-> data.message_text, schedule_time |-> data.schedule_time,
     interval_seconds |-> data.interval_seconds, media_type |-> data.media_type,
     buttons |-> data.buttons, sent |-> FALSE, last_sent_telegram_message_id |-> 0]

Without(f, x) == [y \in DOMAIN f \ {x} |-> f[y]]
With(f, x, v) == [y \in DOMAIN f \cup {x} |-> IF y = x THEN v ELSE f[y]]

\* faulty variant of AfterCommands: /cancel leaves the session in place
AfterCommandsKeeping(us, u, c, msg, admin) ==
    IF msg.text = Cmd("/schedule_message") /\ admin THEN With(us, u, NewSession(c)) ELSE us

\* The handlers registered before handle_message, for one NewMessage event:
\* /schedule_message opens a session for an administrator, /cancel drops the
\* sender's session; the other commands only reply.
AfterCommands(us, u, c, msg, admin) ==
    IF msg.text = Cmd("/schedule_message") /\ admin THEN With(us, u, NewSession(c))
    ELSE IF msg.text = Cmd("/cancel") /\ u \in DOMAIN us THEN Without(us, u)
    ELSE us

\* what those handlers answer
CommandReply(us, u, c, msg, admin) ==
    IF msg.text = Cmd("/schedule_message")
    THEN (IF admin THEN <<"ask_name">> ELSE <<"only_admins">>)
    ELSE IF msg.text = Cmd("/cancel")
    THEN (IF u \in DOMAIN us THEN <<"cancelled">> ELSE <<"nothing_to_cancel">>)
    ELSE <<>>

\* faulty variant of ParseSchedule: any integer is taken as an interval
ParseScheduleAnyInt(text, t) ==
    IF ParseInt(text)[1] THEN <<"interval", ParseInt(text)[2], NoTime>>
    ELSE IF StrpTime(text)[1]
         THEN (IF StrpTime(text)[2] < t THEN <<"reject", "in_the_past">> ELSE <<"time", 0, text>>)
         ELSE <<"reject", "invalid_input">>

\* the INTERVAL input: <<"interval", n>>, <<"time", text>> or <<"reject", answer>>
ParseSchedule(text, t) ==
    LET asInt == ParseInt(text)
        asTime == StrpTime(text)
    IN  IF asInt[1] THEN (IF asInt[2] <= 0 THEN <<"reject", "not_positive">>
                          ELSE <<"interval", asInt[2], NoTime>>)
        ELSE IF asTime[1] THEN (IF asTime[2] < t THEN <<"reject", "in_the_past">>
                                ELSE <<"time", 0, text>>)
        ELSE <<"reject", "invalid_input">>

\* the job the INTERVAL branch registers for an inserted document; raises
\* (<<FALSE>>) when at() refuses the time text
ArmNew(data, id, chat, t) ==
    IF data.interval_seconds # NoInterval
    THEN <<TRUE, EverySeconds(data.interval_seconds, chat, id, t)>>
    ELSE IF AtValid(SplitTime(data.schedule_time))
         THEN <<TRUE, EveryDayAt(SplitTime(data.schedule_time), chat, id, t)>>
         ELSE <<FALSE>>

\* faulty variant of After: an accepted MEDIA input goes on to INTERVAL
AfterSkipping(st) ==
    CASE st = "SCHEDULE_NAME" -> "MESSAGE_TEXT"
      [] st = "MESSAGE_TEXT" -> "MEDIA"
      [] st = "MEDIA" -> "INTERVAL"
      [] st = "BUTTONS" -> "INTERVAL"
      [] OTHER -> st

\* the state an accepted input moves the session to: state_data['state'] = ...
After(st) ==
    CASE st = "SCHEDULE_NAME" -> "MESSAGE_TEXT"
      [] st = "MESSAGE_TEXT" -> "MEDIA"
      [] st = "MEDIA" -> "BUTTONS"
      [] st = "BUTTONS" -> "INTERVAL"
      [] OTHER -> st

\* what the BUTTONS branch answers to an input other than skip
ButtonReply(text) ==
    IF ~IsButtonLine(text) THEN "button_format"
    ELSE IF text.scheme \notin {"http", "https", "tg"} THEN "url_invalid"
    ELSE IF ~ButtonUrlOk(text) THEN "url_incomplete"
    ELSE "button_added"

\* handle_conversation up to its last await, for sender u in chat c, on the
\* sessions m.us, the collection m.coll, the jobs m.jobs, with m.oid the next
\* ObjectId and m.t the clock. The result names them afterwards, with the
\* answer appended to m.reply, and whether the handler now awaits its
\* confirmation reply before it deletes the session (awaits) and whether it
\* stored a document under an _id that the draft carried from an earlier
\* insert (reused).
Conversation(m, u, c, msg, insertFails) ==
    LET quiet == [m EXCEPT !.awaits = FALSE, !.reused = FALSE]
        same(k) == [quiet EXCEPT !.reply = Append(@, k)]
        sd == m.us[u]
        text == Strip(msg.text)
        set(st, data, k) ==
            [same(k) EXCEPT !.us = With(m.us, u, [sd EXCEPT !.state = st, !.data = data])]
    IN
    IF u \notin DOMAIN m.us \/ m.us[u].chat_id # c THEN quiet
    ELSE IF sd.state = "SCHEDULE_NAME" THEN
        IF text = NoText THEN same("name_empty")
        ELSE set(After(sd.state), [sd.data EXCEPT !.schedule_name = text], "ask_text")
    ELSE IF sd.state = "MESSAGE_TEXT" THEN
        IF text = NoText THEN same("text_empty")
        ELSE set(After(sd.state), [sd.data EXCEPT !.message_text = text], "ask_media")
    ELSE IF sd.state = "MEDIA" THEN
        IF Lower(text) = Word("skip") THEN set(After(sd.state), sd.data, "ask_buttons")
        ELSE IF msg.media # "none"
        THEN set(After(sd.state), [sd.data EXCEPT !.media_type = msg.media], "ask_buttons")
        ELSE same("media_or_skip")
    ELSE IF sd.state = "BUTTONS" THEN
        IF Lower(text) = Word("skip") THEN set(After(sd.state), sd.data, "ask_schedule")
        ELSE IF IsButtonLine(text) /\ ButtonUrlOk(text)
        THEN set("BUTTONS", [sd.data EXCEPT !.buttons =
                                Append(@, [text |-> text.label, scheme |-> text.scheme,
                                           host |-> text.host])], ButtonReply(text))
        ELSE same(ButtonReply(text))
    ELSE \* INTERVAL
        LET parsed == ParseSchedule(text, m.t)
        IN  IF parsed[1] = "reject" THEN same(parsed[2])
            ELSE
            LET fresh == sd.data.oid = 0
                id == IF fresh THEN m.oid ELSE sd.data.oid
                data == [sd.data EXCEPT !.interval_seconds = parsed[2],
                                        !.schedule_time = parsed[3],
                                        !.oid = id]
                kept == [set("INTERVAL", data, "error") EXCEPT !.oid = IF fresh THEN @ + 1 ELSE @]
                armed == ArmNew(data, id, c, m.t)
            IN  IF insertFails \/ Has(m.coll, id) THEN kept
                ELSE LET stored == [kept EXCEPT !.coll = With(m.coll, id, DocOf(data)),
                                                !.reused = ~fresh]
                     IN  IF armed[1]
                         THEN [stored EXCEPT !.jobs = Append(m.jobs, armed[2]),
                                             !.awaits = TRUE, !.reply = m.reply]
                         ELSE stored

\* faulty variant of Dispatch: a raising insert_one is not noticed
DispatchIgnoringFault(m, u, c, msg, admin, insertFails) ==
    Conversation([m EXCEPT !.us = AfterCommands(m.us, u, c, msg, admin),
                           !.reply = CommandReply(m.us, u, c, msg, admin)],
                 u, c, msg, FALSE)

\* faulty variant of Dispatch: the chat of the event is not compared with the
\* chat of the session
DispatchAnyChat(m, u, c, msg, admin, insertFails) ==
    LET us1 == AfterCommands(m.us, u, c, msg, admin)
    IN  Conversation([m EXCEPT !.us = us1, !.reply = CommandReply(m.us, u, c, msg, admin)],
                     u, IF u \in DOMAIN us1 THEN us1[u].chat_id ELSE c, msg, insertFails)

\* one NewMessage event through every registered handler
Dispatch(m, u, c, msg, admin, insertFails) ==
    Conversation([m EXCEPT !.us = AfterCommands(m.us, u, c, msg, admin),
                           !.reply = CommandReply(m.us, u, c, msg, admin)],
                 u, c, msg, insertFails)

\* what the handlers of a NewMessage event read and write
Mem ==
    [us |-> user_states, coll |-> collection, jobs |-> jobs, oid |-> next_oid, t |-> now,
     awaits |-> FALSE, reused |-> FALSE, reply |-> <<>>]

\* A NewMessage event: msg from u in chat c. admin is the answer of is_admin,
\* insertFails makes insert_one raise.
NewMessage(u, c, msg, admin, insertFails) ==
    /\ running
    /\ msg.text # Cmd("/schedule_message") => admin
    /\ insertFails => /\ u \in DOMAIN user_states
                      /\ user_states[u].chat_id = c
                      /\ user_states[u].state = "INTERVAL"
                      /\ ParseSchedule(Strip(msg.text), now)[1] # "reject"
                      /\ msg.text \notin {Cmd("/schedule_message"), Cmd("/cancel")}
    /\ \E r \in {Dispatch(Mem, u, c, msg, admin, insertFails)} :
           /\ r.oid <= MaxJobs + 1
           /\ r.awaits => pending[u] < MaxPending
           /\ \A v \in DOMAIN r.us : Len(r.us[v].data.buttons) <= MaxButtons
           /\ user_states' = r.us
           /\ collection' = r.coll
           /\ jobs' = r.jobs
           /\ next_oid' = r.oid
           /\ pending' = IF r.awaits THEN [pending EXCEPT ![u] = @ + 1] ELSE pending
           /\ dirty' = IF r.reused THEN dirty \cup {user_states[u].data.oid} ELSE dirty
           /\ reply' = r.reply
    /\ UNCHANGED <<now, running, exit_cause, boots, tasks, live, next_mid>>

\* The confirmation reply of a finalisation returns (ok) or raises; after it
\* returned, del self.user_states[user_id] runs, a KeyError being caught.
FinalizeReply(u, ok) ==
    /\ running
    /\ pending[u] > 0
    /\ pending' = [pending EXCEPT ![u] = @ - 1]
    /\ user_states' = IF ok /\ u \in DOMAIN user_states THEN Without(user_states, u)
                      ELSE user_states
    /\ reply' = IF ok THEN <<"scheduled">> ELSE <<"error">>
    /\ UNCHANGED <<now, running, exit_cause, boots, collection, next_oid, jobs, tasks,
                   live, next_mid, dirty>>

\* ------------------------------------------------------------- stop
\* callback data "stop_<text>" whose text ObjectId() refuses
BadId == 0

\* faulty variant of StopOutcome: is_admin is not asked
StopOutcomeAnyone(coll, c, id, admin, storeFails) ==
    IF id = BadId \/ storeFails THEN "error"
    ELSE IF DeleteOne(coll, id, c) = coll THEN "not_found"
    ELSE "stopped"

\* faulty variant of StopOutcome: deleted_count is not looked at
StopOutcomeUnchecked(coll, c, id, admin, storeFails) ==
    IF ~admin THEN "only_admins"
    ELSE IF id = BadId \/ storeFails THEN "error"
    ELSE "stopped"

\* what handle_button_click does with "stop_<id>" pressed in chat c
StopOutcome(coll, c, id, admin, storeFails) ==
    IF ~admin THEN "only_admins"
    ELSE IF id = BadId \/ storeFails THEN "error"
    ELSE IF DeleteOne(coll, id, c) = coll THEN "not_found"
    ELSE "stopped"

\* handle_button_click for data "stop_<id>" pressed by u in chat c
StopClick(u, c, id, admin, storeFails) ==
    /\ running
    /\ IF StopOutcome(collection, c, id, admin, storeFails) = "stopped"
       THEN /\ collection' = DeleteOne(collection, id, c)
            /\ jobs' = ClearTag(jobs, id)
       ELSE UNCHANGED <<collection, jobs>>
    /\ reply' = <<StopOutcome(collection, c, id, admin, storeFails)>>
    /\ UNCHANGED <<now, running, exit_cause, boots, next_oid, tasks, live, next_mid,
                   user_states, pending, dirty>>

\* ------------------------------------------------------------- start-up
\* faulty variant of Pending: the query does not look at sent
PendingIgnoringSent(doc) ==
    \/ doc.interval_seconds # NoInterval
    \/ doc.schedule_time # NoTime

\* the query of load_and_reschedule_jobs
Pending(doc) ==
    \/ doc.interval_seconds # NoInterval
    \/ (doc.schedule_time # NoTime /\ ~doc.sent)

\* a one-time document whose schedule_time lies before the clock
PastDue(doc, t) ==
    /\ doc.interval_seconds = NoInterval
    /\ doc.schedule_time # NoTime
    /\ StrpTime(doc.schedule_time)[2] < t

\* faulty variant of Rearm: an interval job is registered to run at once
RearmAtOnce(doc, id, t) ==
    IF doc.interval_seconds > 0
    THEN EverySeconds(doc.interval_seconds, doc.chat_id, id, t - doc.interval_seconds)
    ELSE EveryDayAt(StrfTime(StrpTime(doc.schedule_time)[2]), doc.chat_id, id, t)

\* the job load_and_reschedule_jobs registers for a pending document
Rearm(doc, id, t) ==
    IF doc.interval_seconds > 0
    THEN EverySeconds(doc.interval_seconds, doc.chat_id, id, t)
    ELSE EveryDayAt(StrfTime(StrpTime(doc.schedule_time)[2]), doc.chat_id, id, t)

\* faulty variant of ReloadJobs: every pending document is registered twice
ReloadJobsTwice(coll, t) ==
    LET ids == SelectIdx([i \in Ids |-> Has(coll, i) /\ Pending(coll[i]) /\ ~PastDue(coll[i], t)],
                         1, MaxJobs)
    IN  [k \in 1..2 * Len(ids) |->
            Rearm(coll[ids[((k - 1) % Len(ids)) + 1]], ids[((k - 1) % Len(ids)) + 1], t)]

\* load_and_reschedule_jobs: the jobs registered, in the order of the cursor
ReloadJobs(coll, t) ==
    LET ids == SelectIdx([i \in Ids |-> Has(coll, i) /\ Pending(coll[i]) /\ ~PastDue(coll[i], t)],
                         1, MaxJobs)
    IN  [k \in 1..Len(ids) |-> Rearm(coll[ids[k]], ids[k], t)]

\* faulty variant of ReloadMarks: past one-time documents are left as they are
ReloadMarksNone(coll, t, updFails) == coll

\* load_and_reschedule_jobs: past one-time documents are marked sent, unless
\* that update raises (updFails), which is logged
ReloadMarks(coll, t, updFails) ==
    [i \in DOMAIN coll |->
        IF Pending(coll[i]) /\ PastDue(coll[i], t) /\ i \notin updFails
        THEN [coll[i] EXCEPT !.sent = TRUE] ELSE coll[i]]

\* The process starts: client.start, load_and_reschedule_jobs, then the loop.
\* findFails: collection.find raises, which ends run().
Start(findFails, updFails) ==
    /\ ~running
    /\ boots < MaxBoots
    /\ boots' = boots + 1
    /\ updFails \subseteq {i \in DOMAIN collection : PastDue(collection[i], now)}
    /\ IF findFails
       THEN /\ updFails = {}
            /\ exit_cause' = "reload_error"
            /\ UNCHANGED <<running, collection, jobs>>
       ELSE /\ running' = TRUE
            /\ exit_cause' = "none"
            /\ jobs' = ReloadJobs(collection, now)
            /\ collection' = ReloadMarks(collection, now, updFails)
    /\ UNCHANGED <<now, next_oid, tasks, live, next_mid, user_states, pending, dirty, reply>>

\* the process is stopped from outside
Kill ==
    /\ running
    /\ running' = FALSE
    /\ exit_cause' = "kill"
    /\ Wiped
    /\ UNCHANGED <<now, boots, collection, next_oid, live, next_mid, dirty, reply>>

\* time passes while the process is down
Idle ==
    /\ ~running
    /\ now < MaxTime
    /\ now' = now + 1
    /\ UNCHANGED <<running, exit_cause, boots, collection, next_oid, jobs, tasks,
                   live, next_mid, user_states, pending, dirty, reply>>

\* ------------------------------------------------------------- specifications
\* the INTERVAL inputs: integers, timestamps in both spellings, anything else
ScheduleTexts ==
    {IntText(n) : n \in 0..MaxInterval}
    \cup {TsText(d, t, p) : d \in 0..MaxDay, t \in 0..DayLen - 1, p \in BOOLEAN}
    \cup {Junk}

Plain(text) == [text |-> text, media |-> "none"]

\* what a user who follows the prompts sends next
Typed(u) ==
    IF u \notin DOMAIN user_states
    THEN {Plain(Cmd("/schedule_message"))}
    ELSE LET st == user_states[u].state
         IN  IF st \in {"SCHEDULE_NAME", "MESSAGE_TEXT"} THEN {Plain(Word("hello"))}
             ELSE IF st \in {"MEDIA", "BUTTONS"} THEN {Plain(Word("skip"))}
             ELSE {Plain(x) : x \in ScheduleTexts}

\* Authoring by one administrator, the loop and the deliveries, without faults
\* of the store or the transport.
AuthorJobs == 1

Next ==
    \/ \E msg \in Typed("u1") : next_oid <= AuthorJobs /\ NewMessage("u1", "c1", msg, TRUE, FALSE)
    \/ FinalizeReply("u1", TRUE)
    \/ Tick(FALSE)
    \/ \E i \in 1..MaxTasks : DeliverStart(i, FALSE)
    \/ \E i \in 1..MaxTasks : DeliverDelete(i, TRUE)
    \/ \E i \in 1..MaxTasks : DeliverSend(i, TRUE, "none")

Spec == Init /\ [][Next]_vars

\* The state after the administrator authored the schedules of seq, one after
\* the other, at instant t.
RECURSIVE Authored(_, _)
Authored(seq, t) ==
    IF seq = <<>>
    THEN [us |-> [u \in {} |-> 0], coll |-> <<>>, jobs |-> <<>>, oid |-> 1, t |-> t,
          awaits |-> FALSE, reused |-> FALSE, reply |-> <<>>]
    ELSE LET m0 == Authored(SubSeq(seq, 1, Len(seq) - 1), t)
             m1 == Dispatch(m0, "u1", "c1", Plain(Cmd("/schedule_message")), TRUE, FALSE)
             m2 == Dispatch(m1, "u1", "c1", Plain(Word("hello")), TRUE, FALSE)
             m3 == Dispatch(m2, "u1", "c1", Plain(Word("skip")), TRUE, FALSE)
             m4 == Dispatch(m3, "u1", "c1", Plain(Word("skip")), TRUE, FALSE)
             m5 == Dispatch(m4, "u1", "c1", Plain(seq[Len(seq)]), TRUE, FALSE)
         IN  [m5 EXCEPT !.us = Without(@, "u1")]

\* Init after the schedules of some seq in menu were authored at instant 0
InitAuthored(menu) ==
    /\ now = 0
    /\ running = TRUE
    /\ exit_cause = "none"
    /\ boots = 1
    /\ \E seq \in menu :
          /\ collection = Authored(seq, 0).coll
          /\ jobs = Authored(seq, 0).jobs
          /\ next_oid = Authored(seq, 0).oid
    /\ tasks = <<>>
    /\ live = {}
    /\ next_mid = 1
    /\ user_states = [u \in {} |-> 0]
    /\ pending = [u \in Users |-> 0]
    /\ dirty = {}
    /\ reply = <<>>

\* the accepted schedules: intervals and timestamps at() takes
Intervals == {IntText(n) : n \in 1..MaxInterval}
Instants == {TsText(d, t, TRUE) : d \in 0..MaxDay, t \in 0..DayLen - 1}
Seqs(S) == {<<x>> : x \in S} \cup {<<x, y>> : x \in S, y \in S}

\* The loop and the deliveries of an every-tick job and a one-time job, with
\* faults of the store and the transport, and the stop button.
InitDeliver == InitAuthored(Seqs({IntText(1), TsText(0, 1, TRUE)}))

NextDeliver ==
    \/ \E f \in BOOLEAN : Tick(f)
    \/ \E i \in 1..MaxTasks, f \in BOOLEAN : DeliverStart(i, f)
    \/ \E i \in 1..MaxTasks, ok \in BOOLEAN : DeliverDelete(i, ok)
    \/ \E i \in 1..MaxTasks, ok \in BOOLEAN, fault \in {"none", "last", "sent"} :
          DeliverSend(i, ok, fault)
    \/ \E m \in live : ExternalDelete(m)
    \/ \E id \in DOMAIN collection : StopClick("u1", "c1", id, TRUE, FALSE)

SpecDeliver == InitDeliver /\ [][NextDeliver]_vars

\* The loop, the deliveries and restarts of the process.
InitRestart == InitAuthored(Seqs(Intervals \cup Instants))

NextRestart ==
    \/ Tick(FALSE)
    \/ \E i \in 1..MaxTasks : DeliverStart(i, FALSE)
    \/ \E i \in 1..MaxTasks : DeliverDelete(i, TRUE)
    \/ \E i \in 1..MaxTasks, ok \in BOOLEAN : DeliverSend(i, ok, "none")
    \/ \E f \in BOOLEAN, uf \in SUBSET Ids : Start(f, uf)
    \/ Kill
    \/ Idle

SpecRestart == InitRestart /\ [][NextRestart]_vars

\* The authoring conversation of one administrator in two chats: every input
\* a state tells apart, the commands in every state, is_admin answering either
\* way, insert_one and the confirmation reply failing or not.
Photo == [text |-> NoText, media |-> "photo"]
Commands == {Plain(Cmd("/schedule_message")), Plain(Cmd("/cancel"))}

Inputs(u) ==
    Commands \cup
    (IF u \notin DOMAIN user_states THEN {Plain(Word("hello"))}
     ELSE LET st == user_states[u].state
          IN  IF st \in {"SCHEDULE_NAME", "MESSAGE_TEXT"}
              THEN {Plain(Word("hello")), Plain(NoText), Plain(Blank)}
              ELSE IF st = "MEDIA" THEN {Plain(Word("skip")), Photo, Plain(Word("hello"))}
              ELSE IF st = "BUTTONS"
              THEN {Plain(Word("skip")), Plain(Word("hello")),
                    Plain(BtnText("Join", "https", "example.com")),
                    Plain(BtnText("Join", "ftp", "x")),
                    Plain(BtnText("Join", "https", ""))}
              ELSE {Plain(IntText(0 - 1)), Plain(IntText(0)), Plain(IntText(1)), Plain(Junk),
                    Plain(TsText(0, 1, TRUE)), Plain(TsText(0, 1, FALSE))})

NextAuthor ==
    \/ \E c \in Chats, msg \in Inputs("u1"), admin \in BOOLEAN, insertFails \in BOOLEAN :
          next_oid <= AuthorJobs /\ NewMessage("u1", c, msg, admin, insertFails)
    \/ \E ok \in BOOLEAN : FinalizeReply("u1", ok)

SpecAuthor == Init /\ [][NextAuthor]_vars

\* The loop, the deliveries and restarts, with the stop button pressed in
\* either chat for any id, by administrators and others, and with delete_one
\* failing.
\* an every-tick schedule and a one-time schedule were authored
InitStop == InitAuthored({<<IntText(1), TsText(0, 1, TRUE)>>})

NextStop ==
    \/ Tick(FALSE)
    \/ \E i \in 1..MaxTasks : DeliverStart(i, FALSE)
    \/ \E i \in 1..MaxTasks : DeliverDelete(i, TRUE)
    \/ \E i \in 1..MaxTasks : DeliverSend(i, TRUE, "none")
    \/ \E c \in Chats, id \in Ids \cup {BadId} : StopClick("u1", c, id, TRUE, FALSE)
    \/ \E c \in Chats, id \in Ids : StopClick("u1", c, id, FALSE, FALSE)
    \/ \E id \in Ids : StopClick("u1", "c1", id, TRUE, TRUE)
    \/ Start(FALSE, {})
    \/ Kill

SpecStop == InitStop /\ [][NextStop]_vars

\* The loop and the deliveries while the send of the one-time schedule's
\* delivery never returns: client.send_message is awaited and the event loop
\* runs the other coroutines and run() meanwhile.
\* the delivery at index i is the one whose send hangs
Hangs(i) == Has(collection, tasks[i].id) /\ OneShotDoc(collection[tasks[i].id])

\* the deliveries that reached their send and wait for it
Hung == {i \in 1..Len(tasks) : tasks[i].pc = "send" /\ Hangs(i)}

NextHang ==
    \/ Tick(FALSE)
    \/ \E i \in 1..MaxTasks : DeliverStart(i, FALSE)
    \/ \E i \in 1..MaxTasks : DeliverDelete(i, TRUE)
    \/ \E i \in 1..MaxTasks, ok \in BOOLEAN :
          i <= Len(tasks) /\ ~Hangs(i) /\ DeliverSend(i, ok, "none")

\* run() wakes up after each sleep, and every awaited call but the hung send
\* returns
FairHang ==
    /\ WF_vars(Tick(FALSE))
    /\ WF_vars(\E i \in 1..MaxTasks : DeliverStart(i, FALSE))
    /\ WF_vars(\E i \in 1..MaxTasks : DeliverDelete(i, TRUE))
    /\ WF_vars(\E i \in 1..MaxTasks, ok \in BOOLEAN :
                  i <= Len(tasks) /\ ~Hangs(i) /\ DeliverSend(i, ok, "none"))

SpecHang == InitStop /\ [][NextHang]_vars /\ FairHang

\* Authoring by one administrator who follows the prompts, with the commands
\* sent in either chat while a confirmation reply is awaited: Telethon
\* handles each update in a task of its own, so a further event is handled
\* while an earlier handler is suspended at an await.
NextOverlap ==
    \/ \E msg \in Typed("u1") :
          next_oid <= AuthorJobs /\ NewMessage("u1", "c1", msg, TRUE, FALSE)
    \/ \E c \in Chats, msg \in Commands, admin \in BOOLEAN :
          pending["u1"] > 0 /\ NewMessage("u1", c, msg, admin, FALSE)
    \/ \E ok \in BOOLEAN : FinalizeReply("u1", ok)

SpecOverlap == Init /\ [][NextOverlap]_vars

\* ------------------------------------------------------------- claims
FireAt(doc) == StrpTime(doc.schedule_time)[2]
JobsOf(js, id) == {j \in 1..Len(js) : js[j].tag = id}
Fired(id) == {i \in 1..Len(tasks') : i > Len(tasks) /\ tasks'[i].id = id}

\* C1: every accepted INTERVAL input (a positive integer, or a timestamp that
\* is not in the past) that ends a fresh authoring sequence stores exactly one
\* new document, not marked sent, and registers exactly one job for its id.
C1_AuthoringStoresAndArms ==
    [][\A x \in ScheduleTexts :
          (/\ "u1" \in DOMAIN user_states
           /\ user_states["u1"].state = "INTERVAL"
           /\ user_states["u1"].data.oid = 0
           /\ ParseSchedule(Strip(x), now)[1] # "reject"
           /\ NewMessage("u1", "c1", Plain(x), TRUE, FALSE))
          => \E id \in Ids :
                /\ id \notin DOMAIN collection
                /\ DOMAIN collection' = DOMAIN collection \cup {id}
                /\ ~collection'[id].sent
                /\ Cardinality(JobsOf(jobs', id)) = 1]_vars

\* C2: the job of a one-time document authored with schedule_time t0 is run
\* by the loop at t0: not before t0 and on the day of t0.
C2_OneShotFiresAtFireAt ==
    [][\A i \in 1..Len(jobs) :
          (/\ Tick(FALSE)
           /\ ShouldRun(jobs[i], now')
           /\ Has(collection, jobs[i].tag)
           /\ OneShotDoc(collection[jobs[i].tag]))
          => /\ now' >= FireAt(collection[jobs[i].tag])
             /\ Day(now') = Day(FireAt(collection[jobs[i].tag]))]_vars

\* C3: once a one-time document is marked sent, no step runs its job, sends
\* for it or unmarks it (it can only be removed), and no job is registered
\* for it: neither a tick nor a restart with its reload.
C3_ConsumedNeverFiresAgain ==
    [][\A id \in Ids :
          (Has(collection, id) /\ OneShotDoc(collection[id]) /\ collection[id].sent)
          => /\ Fired(id) = {}
             /\ JobLive(live', id) \subseteq live
             /\ Has(collection', id) => collection'[id].sent
             /\ JobsOf(jobs', id) = {}]_vars

\* a delivered and consumed one-time document, in a process that was restarted
C3_Witness ==
    /\ boots = 2 /\ running
    /\ \E id \in DOMAIN collection :
          /\ OneShotDoc(collection[id]) /\ collection[id].sent
          /\ collection[id].last_sent_telegram_message_id # 0

\* C4: a pass of the loop at t that runs a job registered with
\* every(n).seconds leaves that job registered with next_run = t + n, and
\* queues one delivery for it.
C4_RecurringRearmsAtTPlusN ==
    [][\A i \in 1..Len(jobs) :
          (Tick(FALSE) /\ jobs[i].unit = "seconds" /\ ShouldRun(jobs[i], now'))
          => /\ \E j \in 1..Len(jobs') :
                   jobs'[j] = [jobs[i] EXCEPT !.next_run = now' + jobs[i].interval]
             /\ Cardinality(Fired(jobs[i].tag)) = 1
             /\ \A j \in JobsOf(jobs', jobs[i].tag) : jobs'[j].next_run > now']_vars

\* an interval job that ran a second time and waits for its third run
C4_Witness ==
    \E i \in 1..Len(jobs) :
        /\ jobs[i].unit = "seconds"
        /\ now >= 2 * jobs[i].interval
        /\ jobs[i].next_run = now + jobs[i].interval
        /\ boots = 1

\* C5: for a job whose deliveries ran one after the other, without a
\* transport fault of delete_messages on a message that exists and with the
\* new id stored, the only message of the job that can exist at the
\* destination is the recorded one; when a delivery that found a recorded
\* message completes its send, exactly one message of the job exists, the
\* new one, whether delete_messages returned or raised.
C5_OneLiveInstance ==
    [][\A id \in Ids :
          (Has(collection', id) /\ id \notin dirty')
          => /\ \A m \in JobLive(live', id) :
                   m.mid = collection'[id].last_sent_telegram_message_id
             /\ \A i \in TasksOf(tasks, id) :
                   (tasks[i].last # 0 /\ DeliverSend(i, TRUE, "none"))
                   => JobLive(live', id) = {[mid |-> next_mid, job |-> id]}]_vars

\* the second delivery of the only job completed, and its message is the one there
C5_Witness ==
    /\ DOMAIN collection = {1} /\ next_oid = 2
    /\ 1 \notin dirty
    /\ next_mid = 3
    /\ collection[1].last_sent_telegram_message_id = 2
    /\ live = {[mid |-> 2, job |-> 1]}

\* C6: run() is never ended by an error of a due job's handling.
C6_LoopSurvivesJobErrors == exit_cause # "tick_error"

\* C7: when send_message raises for a one-time document that is still stored,
\* the document stays unmarked and its job stays registered for a later pass.
C7_FailedOneShotIsRetried ==
    [][\A i \in 1..Len(tasks) :
          (/\ tasks[i].pc = "send"
           /\ tasks[i].interval = NoInterval
           /\ Has(collection, tasks[i].id)
           /\ ~collection[tasks[i].id].sent
           /\ DeliverSend(i, FALSE, "none"))
          => /\ ~collection'[tasks[i].id].sent
             /\ JobsOf(jobs', tasks[i].id) # {}]_vars

\* C8: the reload at start-up marks every unsent one-time document whose
\* schedule_time lies before the clock as sent (unless that update raises),
\* registers no job for it and delivers nothing.
C8_PastOneShotDropped ==
    [][\A uf \in SUBSET Ids : \A id \in Ids :
          (/\ Has(collection, id) /\ ~collection[id].sent
           /\ PastDue(collection[id], now)
           /\ Start(FALSE, uf))
          => /\ id \notin uf => collection'[id].sent
             /\ JobsOf(jobs', id) = {}
             /\ tasks' = <<>> /\ live' = live
             /\ collection'[id].last_sent_telegram_message_id
                   = collection[id].last_sent_telegram_message_id]_vars

\* a one-time document marked sent by the reload: it never had a message
C8_Witness ==
    /\ boots = 2 /\ running
    /\ \E id \in DOMAIN collection :
          /\ OneShotDoc(collection[id]) /\ collection[id].sent
          /\ collection[id].last_sent_telegram_message_id = 0
          /\ JobsOf(jobs, id) = {}

\* C9: the reload at start-up registers, for every unsent one-time document
\* whose schedule_time lies after the clock, one job whose next run is that
\* schedule_time.
C9_FutureOneShotArmedAtFireAt ==
    [][\A id \in Ids :
          (/\ Has(collection, id) /\ ~collection[id].sent
           /\ OneShotDoc(collection[id])
           /\ FireAt(collection[id]) > now
           /\ Start(FALSE, {}))
          => /\ Cardinality(JobsOf(jobs', id)) = 1
             /\ \A j \in JobsOf(jobs', id) : jobs'[j].next_run = FireAt(collection[id])]_vars

\* C10: the reload at start-up registers, for every stored document with
\* interval_seconds, one job whose next run is the clock plus interval_seconds.
C10_RecurringRearmedFromNow ==
    [][\A uf \in SUBSET Ids : \A id \in Ids :
          (/\ Has(collection, id) /\ ~OneShotDoc(collection[id])
           /\ Start(FALSE, uf))
          => /\ Cardinality(JobsOf(jobs', id)) = 1
             /\ \A j \in JobsOf(jobs', id) :
                   /\ jobs'[j].next_run = now + collection[id].interval_seconds
                   /\ jobs'[j].unit = "seconds"
                   /\ jobs'[j].interval = collection[id].interval_seconds]_vars

\* an interval job registered by a reload later than its authoring
C10_Witness ==
    /\ boots = 2 /\ running /\ now > 0
    /\ \E i \in 1..Len(jobs) :
          /\ jobs[i].unit = "seconds"
          /\ jobs[i].next_run = now + jobs[i].interval

\* C11: a /schedule_message from a sender for whom is_admin answers False
\* (not an administrator, or the lookup raised) is answered with a refusal
\* and leaves self.user_states as it was.
C11_NonAdminBeginRefused ==
    [][\A c \in Chats :
          NewMessage("u1", c, Plain(Cmd("/schedule_message")), FALSE, FALSE)
          => /\ reply'[1] = "only_admins"
             /\ user_states' = user_states]_vars

\* C12: the stop button pressed by an administrator for a well-formed id that
\* the collection does not hold (never stored, or stopped before) is answered
\* with "not found" and changes neither the collection nor the jobs; the
\* process runs on.
C12_StopUnknownIsNoOp ==
    [][\A c \in Chats : \A id \in Ids :
          (~Has(collection, id) /\ StopClick("u1", c, id, TRUE, FALSE))
          => /\ reply' = <<"not_found">>
             /\ collection' = collection
             /\ jobs' = jobs
             /\ running']_vars

\* every stored document was stopped, and a further stop was answered "not found"
C12_Witness ==
    /\ next_oid > 1
    /\ DOMAIN collection = {}
    /\ reply = <<"not_found">>
    /\ running

\* C13: in state BUTTONS a text without "|" is answered with the format
\* error, label|url with a scheme other than http, https and tg with the
\* invalid-url error, and both leave the session as it was; label|https-url
\* with a host is answered "added" and appended to the draft's buttons.
C13_ButtonValidation ==
    [][\A c \in Chats :
          ("u1" \in DOMAIN user_states /\ user_states["u1"].state = "BUTTONS")
          => /\ NewMessage("u1", c, Plain(Word("hello")), TRUE, FALSE) /\ user_states["u1"].chat_id = c
                => reply' = <<"button_format">> /\ user_states' = user_states
             /\ NewMessage("u1", c, Plain(BtnText("Join", "ftp", "x")), TRUE, FALSE)
                   /\ user_states["u1"].chat_id = c
                => reply' = <<"url_invalid">> /\ user_states' = user_states
             /\ NewMessage("u1", c, Plain(BtnText("Join", "https", "example.com")), TRUE, FALSE)
                   /\ user_states["u1"].chat_id = c
                => /\ reply' = <<"button_added">>
                   /\ user_states'["u1"].state = "BUTTONS"
                   /\ user_states'["u1"].data.buttons
                         = Append(user_states["u1"].data.buttons,
                                  [text |-> "Join", scheme |-> "https", host |-> "example.com"])]_vars

\* a draft that holds the accepted button after a later input was refused for its url
C13_Witness ==
    /\ "u1" \in DOMAIN user_states
    /\ user_states["u1"].state = "BUTTONS"
    /\ user_states["u1"].data.buttons
          = <<[text |-> "Join", scheme |-> "https", host |-> "example.com"]>>
    /\ reply = <<"url_invalid">>

\* C14: /cancel from a sender who has a session, whatever its state and
\* whatever the chat, deletes the session and is answered "cancelled"; the
\* collection and the jobs stay as they were.
C14_CancelDiscardsSession ==
    [][\A c \in Chats :
          ("u1" \in DOMAIN user_states /\ NewMessage("u1", c, Plain(Cmd("/cancel")), TRUE, FALSE))
          => /\ "u1" \notin DOMAIN user_states'
             /\ reply' = <<"cancelled">>
             /\ collection' = collection
             /\ jobs' = jobs
             /\ next_oid' = next_oid]_vars

\* a session was cancelled while nothing was stored or registered
C14_Witness ==
    /\ reply = <<"cancelled">>
    /\ "u1" \notin DOMAIN user_states
    /\ collection = <<>>
    /\ jobs = <<>>

\* the place of a conversation state in SCHEDULE_NAME, MESSAGE_TEXT, MEDIA,
\* BUTTONS, INTERVAL
Rank(st) ==
    CASE st = "SCHEDULE_NAME" -> 1
      [] st = "MESSAGE_TEXT" -> 2
      [] st = "MEDIA" -> 3
      [] st = "BUTTONS" -> 4
      [] st = "INTERVAL" -> 5

\* C15: every step that leaves the sender with a session leaves its state
\* where it was or one place further in SCHEDULE_NAME, MESSAGE_TEXT, MEDIA,
\* BUTTONS, INTERVAL; the session an accepted /schedule_message creates
\* starts from SCHEDULE_NAME.
C15_StateMovesForwardByOne ==
    [][("u1" \in DOMAIN user_states')
       => LET begun == \E c \in Chats :
                          NewMessage("u1", c, Plain(Cmd("/schedule_message")), TRUE, FALSE)
              from == IF begun THEN Rank("SCHEDULE_NAME")
                      ELSE Rank(user_states["u1"].state)
          IN  /\ ~begun => "u1" \in DOMAIN user_states
              /\ Rank(user_states'["u1"].state) - from \in {0, 1}]_vars

\* a session that went through every state up to INTERVAL
C15_Witness ==
    /\ "u1" \in DOMAIN user_states
    /\ user_states["u1"].state = "INTERVAL"
    /\ user_states["u1"].data.media_type = "photo"
    /\ Len(user_states["u1"].data.buttons) = 1
    /\ reply = <<"ask_schedule">>

\* C16: a stop that deletes a document leaves no document and no job for its
\* id; and for an id whose document was removed, no later step (a pass of the
\* loop, a restart with its reload) queues a delivery, registers a job or
\* stores a document.
C16_StoppedJobNeverDispatched ==
    [][/\ \A c \in Chats : \A id \in Ids :
             (/\ StopOutcome(collection, c, id, TRUE, FALSE) = "stopped"
              /\ StopClick("u1", c, id, TRUE, FALSE))
             => ~Has(collection', id) /\ JobsOf(jobs', id) = {}
       /\ \A id \in Ids :
             (id < next_oid /\ ~Has(collection, id))
             => /\ Fired(id) = {}
                /\ JobsOf(jobs', id) = {}
                /\ ~Has(collection', id)]_vars

\* the every-tick schedule was stopped before any message of it went out, and
\* the loop ran on past two of its periods, delivering the other schedule
C16_Witness ==
    /\ ~Has(collection, 1) /\ JobsOf(jobs, 1) = {}
    /\ Has(collection, 2) /\ collection[2].sent
    /\ now >= 2 /\ running /\ boots = 1
    /\ tasks = <<>>
    /\ live = {[mid |-> 1, job |-> 2]}

\* C17: the stop button pressed by a sender for whom is_admin answers False
\* in the chat of the click is refused: the collection and the jobs stay as
\* they were.
C17_NonAdminStopRefused ==
    [][\A c \in Chats : \A id \in Ids \cup {BadId} :
          StopClick("u1", c, id, FALSE, FALSE)
          => /\ reply' = <<"only_admins">>
             /\ collection' = collection
             /\ jobs' = jobs]_vars

\* a refused stop, with the document of the chat still stored and its job registered
C17_Witness ==
    /\ reply = <<"only_admins">>
    /\ Has(collection, 1) /\ collection[1].chat_id = "c1"
    /\ JobsOf(jobs, 1) # {}

\* C18: a delivery that finds no document for its id, or a one-time document
\* already marked sent, ends there: it deletes nothing and sends nothing at
\* the destination, and the collection is not written.
C18_DeliverMissingIsNoOp ==
    [][\A i \in 1..Len(tasks) :
          (/\ tasks[i].pc = "start"
           /\ \/ ~Has(collection, tasks[i].id)
              \/ (collection[tasks[i].id].sent /\ OneShotDoc(collection[tasks[i].id]))
           /\ DeliverStart(i, FALSE))
          => /\ tasks' = RemoveAt(tasks, {i})
             /\ live' = live
             /\ next_mid' = next_mid
             /\ collection' = collection]_vars

\* a delivery was queued, and a stop removed its document before it started
C18_Witness ==
    \E i \in 1..Len(tasks) :
        /\ tasks[i].pc = "start"
        /\ ~Has(collection, tasks[i].id)
        /\ running

\* C19: when delete_messages raises in a delivery, the delivery goes on to
\* its send; and the send of a delivery that had a recorded message to delete
\* puts the new message at the destination and records its id in the
\* document.
C19_FailedDeleteStillSends ==
    [][\A i \in 1..Len(tasks) :
          /\ (tasks[i].pc = "delete" /\ DeliverDelete(i, FALSE))
             => /\ tasks' = [tasks EXCEPT ![i].pc = "send"]
                /\ live' = live
          /\ (tasks[i].pc = "send" /\ tasks[i].last # 0 /\ DeliverSend(i, TRUE, "none"))
             => /\ [mid |-> next_mid, job |-> tasks[i].id] \in live'
                /\ Has(collection, tasks[i].id)
                   => collection'[tasks[i].id].last_sent_telegram_message_id = next_mid]_vars

\* delete_messages raised for a message that is still there, and the delivery
\* stands before its send
C19_Witness ==
    \E i \in 1..Len(tasks) :
        /\ tasks[i].pc = "send"
        /\ tasks[i].last # 0
        /\ [mid |-> tasks[i].last, job |-> tasks[i].id] \in live
        /\ Has(collection, tasks[i].id)

\* C20: when the send of a delivery for a document with interval_seconds
\* raises, the collection is left as it was (sent and
\* last_sent_telegram_message_id included) and the job stays registered with
\* its next run ahead of the clock.
C20_FailedRecurringSendKeepsJob ==
    [][\A i \in 1..Len(tasks) :
          (/\ tasks[i].pc = "send"
           /\ tasks[i].interval # NoInterval
           /\ DeliverSend(i, FALSE, "none"))
          => /\ collection' = collection
             /\ jobs' = jobs
             /\ \E j \in JobsOf(jobs', tasks[i].id) :
                   /\ jobs'[j].unit = "seconds"
                   /\ jobs'[j].next_run > now]_vars

\* the only schedule is an interval job that ran, its delivery ended without
\* a message, and it waits for its next run
C20_Witness ==
    /\ boots = 1 /\ running
    /\ DOMAIN collection = {1}
    /\ ~OneShotDoc(collection[1])
    /\ collection[1].last_sent_telegram_message_id = 0
    /\ tasks = <<>> /\ next_mid = 1
    /\ \E j \in JobsOf(jobs, 1) :
          /\ jobs[j].next_run >= 2 * jobs[j].interval
          /\ jobs[j].next_run > now

\* C21: a delivery queued before the stop of its document may run on and send
\* its message, but no step of it stores a document again: an id that the
\* collection handed out and no longer holds stays absent, and the send of a
\* delivery for such an id leaves the collection as it was.
C21_InFlightNeverResurrects ==
    [][\A id \in Ids :
          (id < next_oid /\ ~Has(collection, id))
          => /\ ~Has(collection', id)
             /\ \A i \in TasksOf(tasks, id) :
                   \A ok \in BOOLEAN, fault \in {"none", "last", "sent"} :
                      (tasks[i].pc = "send" /\ DeliverSend(i, ok, fault))
                      => /\ collection' = collection
                         /\ ok => [mid |-> next_mid, job |-> id] \in live']_vars

\* a delivery that loaded its document stands before its send, and a stop
\* removed the document meanwhile
C21_Witness ==
    \E i \in 1..Len(tasks) :
        /\ tasks[i].pc = "send"
        /\ ~Has(collection, tasks[i].id)
        /\ JobsOf(jobs, tasks[i].id) = {}
        /\ reply = <<"stopped">>

\* C22: while the send of one job's delivery hangs, the loop goes on: the
\* clock reaches its end with the every-tick job run at the last pass too
\* (registered for the pass after it), the hung delivery still waiting.
C22_HungSendDoesNotStarve ==
    (Hung # {}) ~> (/\ now = MaxTime
                    /\ Hung # {}
                    /\ \E j \in 1..Len(jobs) :
                          jobs[j].unit = "seconds" /\ jobs[j].next_run = MaxTime + jobs[j].interval)

\* the one-time schedule's send hangs since the first pass, and the second
\* delivery of the every-tick schedule, queued by a later pass, went out
C22_Witness ==
    /\ Hung # {}
    /\ now >= 2
    /\ \E id \in DOMAIN collection :
          /\ ~OneShotDoc(collection[id])
          /\ collection[id].last_sent_telegram_message_id = 2
          /\ [mid |-> 2, job |-> id] \in live

\* C23: a pass of the loop queues exactly one delivery for every registered
\* job whose next_run is not after the clock and none for the others; each
\* queued delivery has not run any of its steps when the pass ends, and by
\* then the job of a one-time document is unregistered and the job of an
\* interval document has its next_run after the clock.
C23_DueJobsDispatchedOnce ==
    [][Tick(FALSE)
       => /\ \A i \in 1..Len(jobs) :
                ShouldRun(jobs[i], now')
                => /\ Cardinality(Fired(jobs[i].tag)) = 1
                   /\ \A k \in Fired(jobs[i].tag) : tasks'[k].pc = "start"
                   /\ IF OneShotDoc(collection[jobs[i].tag])
                      THEN JobsOf(jobs', jobs[i].tag) = {}
                      ELSE /\ JobsOf(jobs', jobs[i].tag) # {}
                           /\ \A j \in JobsOf(jobs', jobs[i].tag) : jobs'[j].next_run > now'
          /\ \A id \in Ids :
                Fired(id) # {} => \E i \in JobsOf(jobs, id) : ShouldRun(jobs[i], now')
          /\ \A i \in 1..Len(jobs) :
                ~ShouldRun(jobs[i], now') => \E j \in 1..Len(jobs') : jobs'[j] = jobs[i]
          /\ SubSeq(tasks', 1, Len(tasks)) = tasks
          /\ collection' = collection /\ live' = live]_vars

\* the first pass found an interval job and a one-time job due together: both
\* deliveries are queued and not started, the one-time job is unregistered
C23_Witness ==
    /\ now = 1 /\ boots = 1
    /\ Len(tasks) = 2
    /\ \A k \in 1..2 : tasks[k].pc = "start"
    /\ ~OneShotDoc(collection[tasks[1].id])
    /\ OneShotDoc(collection[tasks[2].id])
    /\ JobsOf(jobs, tasks[2].id) = {}
    /\ \E j \in JobsOf(jobs, tasks[1].id) : jobs[j].next_run = 2

\* C24: no stored document with interval_seconds is marked sent, whatever
\* deliveries and reloads ran.
C24_RecurringNeverConsumed ==
    \A id \in DOMAIN collection :
        collection[id].interval_seconds # NoInterval => ~collection[id].sent

\* an interval document that was delivered and then went through a reload
\* which marked a past one-time document beside it
C24_Witness ==
    /\ boots = 2 /\ running
    /\ \E id \in DOMAIN collection :
          /\ collection[id].interval_seconds # NoInterval
          /\ collection[id].last_sent_telegram_message_id # 0
    /\ \E id \in DOMAIN collection :
          /\ OneShotDoc(collection[id]) /\ collection[id].sent
          /\ collection[id].last_sent_telegram_message_id = 0

\* C25: every document the conversation stored has either interval_seconds
\* or schedule_time and not both, and its interval_seconds, when it has one,
\* is a positive integer.
C25_ExactlyOneSchedule ==
    \A id \in DOMAIN collection :
        /\ (collection[id].interval_seconds # NoInterval) # (collection[id].schedule_time # NoTime)
        /\ collection[id].interval_seconds # NoInterval
           => collection[id].interval_seconds \in Nat \ {0}

\* a one-time document was stored and its confirmation reply went out
C25_Witness ==
    /\ DOMAIN collection = {1}
    /\ collection[1].schedule_time # NoTime
    /\ collection[1].interval_seconds = NoInterval
    /\ reply = <<"scheduled">>

\* C26: in state INTERVAL a timestamp that is not after the clock (equal to
\* it or earlier) is refused: nothing is stored, no job is registered and
\* the session stays as it was.
C26_TimestampMustBeFuture ==
    [][\A x \in ScheduleTexts :
          (/\ "u1" \in DOMAIN user_states
           /\ user_states["u1"].state = "INTERVAL"
           /\ StrpTime(x)[1]
           /\ StrpTime(x)[2] <= now
           /\ NewMessage("u1", "c1", Plain(x), TRUE, FALSE))
          => /\ collection' = collection
             /\ jobs' = jobs
             /\ user_states' = user_states]_vars

\* C27: when insert_one raises for an accepted INTERVAL input, the collection
\* and the jobs stay as they were, the sender is answered with the general
\* error, no confirmation is awaited, and the process runs on, the session
\* still in INTERVAL.
C27_InsertFailureAborts ==
    [][\A c \in Chats : \A msg \in Inputs("u1") :
          NewMessage("u1", c, msg, TRUE, TRUE)
          => /\ collection' = collection
             /\ jobs' = jobs
             /\ reply' = <<"error">>
             /\ pending' = pending
             /\ running'
             /\ "u1" \in DOMAIN user_states'
             /\ user_states'["u1"].state = "INTERVAL"]_vars

\* insert_one raised for a draft with an interval: the draft has its _id,
\* and nothing is stored or registered
C27_Witness ==
    /\ reply = <<"error">>
    /\ collection = <<>> /\ jobs = <<>>
    /\ "u1" \in DOMAIN user_states
    /\ user_states["u1"].data.oid # 0
    /\ user_states["u1"].data.interval_seconds # NoInterval
    /\ running

\* C28: once the document of a session's draft is stored and its job
\* registered, the end of the confirmation reply, whether it returned or
\* raised, leaves the sender without a session.
C28_SessionGoneAfterFinalize ==
    [][\A ok \in BOOLEAN :
          (/\ "u1" \in DOMAIN user_states
           /\ user_states["u1"].data.oid # 0
           /\ Has(collection, user_states["u1"].data.oid)
           /\ JobsOf(jobs, user_states["u1"].data.oid) # {}
           /\ FinalizeReply("u1", ok))
          => "u1" \notin DOMAIN user_states']_vars

\* an input that the state st refuses: no name or text; neither media nor
\* skip in MEDIA; in BUTTONS neither skip nor label|url with a scheme of
\* http, https or tg and a host for http and https; in INTERVAL an integer
\* that is not positive or a text that is neither an integer nor a timestamp
FailsValidation(st, msg) ==
    LET skip == msg.text \in {Word("skip"), Word("Skip")}
    IN  CASE st \in {"SCHEDULE_NAME", "MESSAGE_TEXT"} -> msg.text.k \in {"none", "blank"}
          [] st = "MEDIA" -> ~skip /\ msg.media = "none"
          [] st = "BUTTONS" ->
                /\ ~skip
                /\ \/ msg.text.k # "btn"
                   \/ msg.text.scheme \notin {"http", "https", "tg"}
                   \/ (msg.text.scheme \in {"http", "https"} /\ msg.text.host = "")
          [] st = "INTERVAL" ->
                \/ (msg.text.k = "int" /\ msg.text.n <= 0)
                \/ msg.text.k \notin {"int", "ts"}

\* C29: an input other than a command that the state of the sender's session
\* refuses, sent in the session's chat, is answered and leaves the session
\* (state and draft), the collection and the jobs as they were.
C29_RejectedInputChangesNothing ==
    [][\A msg \in Inputs("u1") \ Commands :
          (/\ "u1" \in DOMAIN user_states
           /\ FailsValidation(user_states["u1"].state, msg)
           /\ NewMessage("u1", user_states["u1"].chat_id, msg, TRUE, FALSE))
          => /\ user_states' = user_states
             /\ collection' = collection
             /\ jobs' = jobs
             /\ next_oid' = next_oid
             /\ Len(reply') = 1]_vars

\* a draft with a photo and a button in INTERVAL whose last input, an integer
\* that is not positive, was refused
C29_Witness ==
    /\ "u1" \in DOMAIN user_states
    /\ user_states["u1"].state = "INTERVAL"
    /\ user_states["u1"].data.media_type = "photo"
    /\ Len(user_states["u1"].data.buttons) = 1
    /\ user_states["u1"].data.oid = 0
    /\ reply = <<"not_positive">>
    /\ collection = <<>> /\ jobs = <<>>

\* C30: an input other than a command from a sender without a session, or
\* sent in another chat than the one of the sender's session, is not
\* answered and leaves the sessions, the collection and the jobs as they
\* were.
C30_UnaddressedInputIgnored ==
    [][\A c \in Chats : \A msg \in Inputs("u1") \ Commands :
          (/\ "u1" \notin DOMAIN user_states \/ user_states["u1"].chat_id # c
           /\ NewMessage("u1", c, msg, TRUE, FALSE))
          => /\ user_states' = user_states
             /\ collection' = collection
             /\ jobs' = jobs
             /\ next_oid' = next_oid
             /\ pending' = pending
             /\ reply' = <<>>]_vars

\* a session waits in MEDIA and the last event got no answer: it was sent in
\* the other chat
C30_Witness ==
    /\ "u1" \in DOMAIN user_states
    /\ user_states["u1"].state = "MEDIA"
    /\ pending["u1"] = 0
    /\ reply = <<>>

\* C31: after a /schedule_message of an administrator went through every
\* registered handler, the sender's session is in SCHEDULE_NAME and its
\* draft has no schedule_name.
C31_CommandNotConsumedAsInput ==
    [][\A c \in Chats :
          NewMessage("u1", c, Plain(Cmd("/schedule_message")), TRUE, FALSE)
          => /\ "u1" \in DOMAIN user_states'
             /\ user_states'["u1"].state = "SCHEDULE_NAME"
             /\ user_states'["u1"].data.schedule_name = NoText]_vars

\* C32: at every instant at most one message of a job exists at the
\* destination, also when deliveries of the job overlap.
C32_OneLiveUnderOverlap ==
    \A id \in Ids : Cardinality(JobLive(live, id)) <= 1

\* C33: a session begun while the finalisation of the sender's earlier
\* session awaits its confirmation reply (its draft carries no _id yet) is
\* still there, as it was, when that reply has returned or raised.
C33_FinalizeRemovesOnlyItsSession ==
    [][\A ok \in BOOLEAN :
          (/\ pending["u1"] > 0
           /\ "u1" \in DOMAIN user_states
           /\ user_states["u1"].data.oid = 0
           /\ FinalizeReply("u1", ok))
          => user_states' = user_states]_vars

C35_StopScopedToChat ==
    [][\A c \in Chats : \A id \in Ids :
          (/\ Has(collection, id)
           /\ collection[id].chat_id # c
           /\ StopClick("u1", c, id, TRUE, FALSE))
          => /\ collection' = collection
             /\ jobs' = jobs
             /\ reply' = <<"not_found">>]_vars

\* both documents of chat c1 are stored, the job of the first is registered,
\* and the last stop, pressed in the other chat, found nothing
C35_Witness ==
    /\ reply = <<"not_found">>
    /\ \A id \in 1..2 : Has(collection, id) /\ collection[id].chat_id = "c1"
    /\ JobsOf(jobs, 1) # {}
    /\ running

\* C36: /cancel sent by the owner of a session in a chat other than the
\* session's chat leaves the session, state and draft, as it was.
C36_CancelScopedToChat ==
    [][\A c \in Chats :
          (/\ "u1" \in DOMAIN user_states
           /\ user_states["u1"].chat_id # c
           /\ NewMessage("u1", c, Plain(Cmd("/cancel")), TRUE, FALSE))
          => user_states' = user_states]_vars

====
